---- MODULE Spec2Model ----
(***************************************************************************)
(* LiquidityService (src/services/liquidity.js): approveToken,             *)
(* waitForTransaction and addLiquidity of one service instance, run        *)
(* against a chain gateway whose responses are nondeterministic.           *)
(*                                                                         *)
(* Strings (token symbols, addresses, decimal amounts, transaction hashes) *)
(* are sequences of one-character strings; the JavaScript undefined of a   *)
(* failed tokenMap lookup is the empty sequence.  A bigint is a record     *)
(* [neg, mag] with mag its decimal digits, most significant first, so that *)
(* 18-decimal base-unit values are exact.  Error messages are sequences of *)
(* words.                                                                  *)
(***************************************************************************)
EXTENDS Integers, Sequences, FiniteSets, TLC

(***************************************************************************)
(* Characters and strings                                                  *)
(***************************************************************************)
DigitChars == <<"0", "1", "2", "3", "4", "5", "6", "7", "8", "9">>

IsDigit(c) == \E i \in 1..Len(DigitChars) : DigitChars[i] = c

DigitVal(c) == (CHOOSE i \in 1..Len(DigitChars) : DigitChars[i] = c) - 1

AllDigits(s) == \A i \in 1..Len(s) : IsDigit(s[i])

\* String.prototype.toUpperCase on the letters that occur in the inputs
LowerChars == <<"p", "h", "r", "s", "u", "d", "t", "c", "o", "g", "e">>

UpperChars == <<"P", "H", "R", "S", "U", "D", "T", "C", "O", "G", "E">>

UpperChar(c) ==
  IF \E i \in 1..Len(LowerChars) : LowerChars[i] = c
  THEN UpperChars[CHOOSE i \in 1..Len(LowerChars) : LowerChars[i] = c]
  ELSE c

toUpperCase(s) == [i \in 1..Len(s) |-> UpperChar(s[i])]

\* UTF-16 code units of the characters of an address
CodeUnit(c) ==
  CASE c = "0" -> 48 [] c = "1" -> 49 [] c = "2" -> 50 [] c = "3" -> 51
    [] c = "4" -> 52 [] c = "5" -> 53 [] c = "6" -> 54 [] c = "7" -> 55
    [] c = "8" -> 56 [] c = "9" -> 57
    [] c = "A" -> 65 [] c = "B" -> 66 [] c = "C" -> 67 [] c = "D" -> 68
    [] c = "E" -> 69 [] c = "F" -> 70
    [] c = "a" -> 97 [] c = "b" -> 98 [] c = "c" -> 99 [] c = "d" -> 100
    [] c = "e" -> 101 [] c = "f" -> 102 [] c = "x" -> 120

\* a < b on JavaScript strings: lexicographic on code units, a proper
\* prefix is smaller
RECURSIVE StrLess(_, _)
StrLess(a, b) ==
  IF b = <<>> THEN FALSE
  ELSE IF a = <<>> THEN TRUE
  ELSE IF CodeUnit(Head(a)) < CodeUnit(Head(b)) THEN TRUE
  ELSE IF CodeUnit(Head(a)) > CodeUnit(Head(b)) THEN FALSE
  ELSE StrLess(Tail(a), Tail(b))

\* undefined < s and s < undefined are false (undefined converts to NaN)
Undefined == <<>>

JsLess(a, b) == IF a = Undefined \/ b = Undefined THEN FALSE ELSE StrLess(a, b)

\* String.prototype.includes on messages, word by word
Includes(msg, pat) ==
  \E i \in 1..(Len(msg) - Len(pat) + 1) : SubSeq(msg, i, i + Len(pat) - 1) = pat

(***************************************************************************)
(* bigint                                                                  *)
(***************************************************************************)
RECURSIVE StripZeros(_)
StripZeros(d) ==
  IF Len(d) > 1 /\ Head(d) = 0 THEN StripZeros(Tail(d)) ELSE d

\* BigInt(sign + digits)
BigInt(neg, digits) ==
  LET m == StripZeros(digits)
  IN  [neg |-> neg /\ m # <<0>>, mag |-> m]

NoNumber == [neg |-> FALSE, mag |-> <<>>]

Zero == [neg |-> FALSE, mag |-> <<0>>]

RECURSIVE DigitsLess(_, _)
DigitsLess(a, b) ==
  IF a = <<>> THEN FALSE
  ELSE IF Head(a) < Head(b) THEN TRUE
  ELSE IF Head(a) > Head(b) THEN FALSE
  ELSE DigitsLess(Tail(a), Tail(b))

MagLess(a, b) ==
  \/ Len(a) < Len(b)
  \/ Len(a) = Len(b) /\ DigitsLess(a, b)

\* x < y on bigints
BigLess(x, y) ==
  IF x.neg /\ ~y.neg THEN TRUE
  ELSE IF ~x.neg /\ y.neg THEN FALSE
  ELSE IF x.neg THEN MagLess(y.mag, x.mag)
  ELSE MagLess(x.mag, y.mag)

\* x >= y on bigints
BigGE(x, y) == ~BigLess(x, y)

RECURSIVE Zeros(_)
Zeros(n) == IF n <= 0 THEN <<>> ELSE <<0>> \o Zeros(n - 1)

\* ethers.MaxUint256 = 2^256 - 1
MaxUint256 ==
  [neg |-> FALSE,
   mag |-> <<1,1,5,7,9,2,0,8,9,2,3,7,3,1,6,1,9,5,4,2,3,5,7,0,9,8,5,0,0,8,6,8,
             7,9,0,7,8,5,3,2,6,9,9,8,4,6,6,5,6,4,0,5,6,4,0,3,9,4,5,7,5,8,4,0,
             0,7,9,1,3,1,2,9,6,3,9,9,3,5>>]

(***************************************************************************)
(* ethers.parseEther(value) = parseUnits(value, 18): an optional minus     *)
(* sign, digits, an optional point, digits, with at least one digit; the   *)
(* fraction is padded to 18 digits and non-zero digits beyond them are     *)
(* rejected; the result is BigInt(sign + whole + fraction).                *)
(***************************************************************************)
EtherDecimals == 18

HasSign(s) == Len(s) > 0 /\ Head(s) = "-"

Unsigned(s) == IF HasSign(s) THEN Tail(s) ELSE s

HasPoint(u) == \E i \in 1..Len(u) : u[i] = "."

PointAt(u) == CHOOSE i \in 1..Len(u) : u[i] = "." /\ \A j \in 1..(i - 1) : u[j] # "."

WholePart(u) == IF HasPoint(u) THEN SubSeq(u, 1, PointAt(u) - 1) ELSE u

FractionPart(u) == IF HasPoint(u) THEN SubSeq(u, PointAt(u) + 1, Len(u)) ELSE <<>>

ToDigits(s) == [i \in 1..Len(s) |-> DigitVal(s[i])]

ParseOk(s) ==
  LET u == Unsigned(s)
      w == WholePart(u)
      f == FractionPart(u)
  IN  /\ AllDigits(w)
      /\ AllDigits(f)
      /\ Len(w) + Len(f) > 0
      /\ \A i \in (EtherDecimals + 1)..Len(f) : f[i] = "0"

parseEther(s) ==
  LET u == Unsigned(s)
      w == IF WholePart(u) = <<>> THEN <<0>> ELSE ToDigits(WholePart(u))
      f == ToDigits(FractionPart(u))
      padded == IF Len(f) < EtherDecimals
                THEN f \o Zeros(EtherDecimals - Len(f))
                ELSE SubSeq(f, 1, EtherDecimals)
  IN  BigInt(HasSign(s), w \o padded)

(***************************************************************************)
(* Static chain configuration (../chains): token registry and router       *)
(***************************************************************************)
\* candidate addresses, lower-case and checksummed (mixed-case) spellings
Addresses ==
  { <<"0", "x", "1", "a">>, <<"0", "x", "1", "B">>, <<"0", "x", "a", "1">> }

\* contract.WPHRS, contract.USDT, contract.USDC: three different contracts
Registries ==
  { r \in [WPHRS : Addresses, USDT : Addresses, USDC : Addresses] :
      r.WPHRS # r.USDT /\ r.WPHRS # r.USDC /\ r.USDT # r.USDC }

ROUTER == <<"0", "x", "f", "f">>

WalletAddress == <<"0", "x", "e", "e">>

\* the signers services are constructed for, with their wallets' addresses
Signers == {1, 2}

Wallets == <<WalletAddress, <<"0", "x", "d", "d">>>>

WalletNames == <<"wallet-1", "wallet-2">>

\* new LiquidityService(wallet, logger, walletName), one for each signer
Services ==
  [s \in Signers |->
     [logger |-> "logger", wallet |-> Wallets[s],
      walletName |-> WalletNames[s], provider |-> "provider", router |-> ROUTER]]

(***************************************************************************)
(* Inputs of addLiquidity                                                  *)
(***************************************************************************)
TokenInputs ==
  { <<"P", "H", "R", "S">>, <<"u", "s", "d", "t">>,
    <<"U", "S", "D", "C">>, <<"D", "O", "G", "E">> }

AmountInputs ==
  { <<"1", ".", "5">>, <<"3", ".", "0">>, <<"-", "1">>, <<"1", "e", "3">> }

(***************************************************************************)
(* Responses of the chain gateway                                          *)
(***************************************************************************)
TransientCode == -32008

NoCode == 0

ReceiptPattern == <<"eth_getTransactionReceipt">>

ErrorObject(code, hasMessage, message) ==
  [kind |-> "error", status |-> 0, code |-> code,
   hasMessage |-> hasMessage, message |-> message]

\* errors a gateway call can reject with: with and without the provider
\* code, with and without message text
GatewayErrors ==
  { ErrorObject(TransientCode, TRUE, <<"unknown", "block">>),
    ErrorObject(TransientCode, FALSE, <<>>),
    ErrorObject(NoCode, TRUE, <<"failed", "to", "call", "eth_getTransactionReceipt">>),
    ErrorObject(NoCode, TRUE, <<"timeout">>),
    ErrorObject(NoCode, FALSE, <<>>) }

Receipt(status) ==
  [kind |-> "receipt", status |-> status, code |-> NoCode,
   hasMessage |-> FALSE, message |-> <<>>]

NullReceipt ==
  [kind |-> "null", status |-> 0, code |-> NoCode,
   hasMessage |-> FALSE, message |-> <<>>]

NoResponse ==
  [kind |-> "none", status |-> 0, code |-> NoCode,
   hasMessage |-> FALSE, message |-> <<>>]

PollResponses == {Receipt(1), Receipt(0), NullReceipt} \cup GatewayErrors

OneAndHalfEther == [neg |-> FALSE, mag |-> <<1, 5>> \o Zeros(17)]

AllowanceValues == {Zero, OneAndHalfEther, MaxUint256}

GasEstimates == {21000, 250001}

\* hash of the n-th transaction the wallet broadcasts
TxHashes == <<"0xh1", "0xh2", "0xh3">>

\* Date.now() / 1000 at the time the mint parameters are assembled
Clock == {1700000000}

\* JavaScript null, for values kept as a sequence of at most one element
Null == <<>>

(***************************************************************************)
(* Decisions of the code, one operator each                                *)
(***************************************************************************)
\* tokenMap[symbol.toUpperCase()]
Resolve(reg, symbol) ==
  LET key == toUpperCase(symbol)
  IN  IF key = <<"P", "H", "R", "S">> THEN reg.WPHRS
      ELSE IF key = <<"U", "S", "D", "T">> THEN reg.USDT
      ELSE IF key = <<"U", "S", "D", "C">> THEN reg.USDC
      ELSE Undefined

\* variant: the pair is rejected only when both lookups fail
InvalidPairBoth(a, b) == a = Undefined /\ b = Undefined

\* !tokenAAddress || !tokenBAddress
InvalidPair(a, b) == a = Undefined \/ b = Undefined

Token0(a, b) == IF JsLess(a, b) THEN a ELSE b

Token1(a, b) == IF JsLess(a, b) THEN b ELSE a

\* variant: amount0Desired always parsed from amountA
Amount0SourceFixed(a, t0, amtA, amtB) == amtA

\* the amount string parsed into amount0Desired, amount1Desired
Amount0Source(a, t0, amtA, amtB) == IF a = t0 THEN amtA ELSE amtB

Amount1Source(a, t0, amtA, amtB) == IF a = t0 THEN amtB ELSE amtA

\* the amount argument of the approveToken call for tokenA, for tokenB
RequiredA(a0, a1) == a0

RequiredB(a0, a1) == a1

\* allowance >= amount
AllowanceSufficient(allowance, amount) == BigGE(allowance, amount)

\* variant: the approval is for the amount that is needed
ApproveArgsExact(spender, amount) == [spender |-> spender, amount |-> amount]

\* token.approve(spender, ethers.MaxUint256)
ApproveArgs(spender, amount) == [spender |-> spender, amount |-> MaxUint256]

\* this.waitForTransaction(tx.hash, 1) in approveToken, in addLiquidity
ApproveConfirmations == 1

MintConfirmations == 1

\* approveToken's value after waitForTransaction came back without raising:
\* the receipt (or null) is not looked at
ApproveAfterWait(receipt) == TRUE

\* variant: one approval is enough
ApprovalsOkEither(a, b) == a \/ b

\* !approvedA || !approvedB is false
ApprovalsOk(a, b) == a /\ b

\* encodeFunctionData("mint", [params]): amounts are uint256
EncodeOk(p) ==
  /\ ~p.amount0Desired.neg /\ BigGE(MaxUint256, p.amount0Desired)
  /\ ~p.amount1Desired.neg /\ BigGE(MaxUint256, p.amount1Desired)

\* variant: only token0 is compared with the wrapped native token
TxValueToken0Only(t0, t1, a0, a1, wphrs) == IF t0 = wphrs THEN a0 ELSE Zero

\* token0 === WPHRS ? amount0Desired : token1 === WPHRS ? amount1Desired : 0
TxValue(t0, t1, a0, a1, wphrs) ==
  IF t0 = wphrs THEN a0 ELSE IF t1 = wphrs THEN a1 ELSE Zero

DefaultGas == 500000

\* variant: the 20% margin is rounded up
GasLimitRoundsUp(gas) == (gas * 12 + 9) \div 10

\* estimatedGas * 12n / 10n
GasLimit(gas) == (gas * 12) \div 10

Fee == 500

TickLower == -887220

TickUpper == 887220

DeadlineWindow == 1800

MintParams(t0, t1, a0, a1, recipient, now) ==
  [token0 |-> t0, token1 |-> t1, fee |-> Fee,
   tickLower |-> TickLower, tickUpper |-> TickUpper,
   amount0Desired |-> a0, amount1Desired |-> a1,
   amount0Min |-> Zero, amount1Min |-> Zero,
   recipient |-> recipient, deadline |-> now + DeadlineWindow]

\* defaults of waitForTransaction(txHash, confirmations, retries = 5, delay = 5000)
Retries == 5

Delay == 5000

PollTimeout == 60000

\* variant: any receipt counts, whatever its status
ReceiptOkAnyStatus(r) == r.kind = "receipt"

\* receipt && receipt.status === 1
ReceiptOk(r) == r.kind = "receipt" /\ r.status = 1

\* variant: the error thrown for a bad receipt names the receipt call
FailedErrorNamesReceipt(txHash) ==
  ErrorObject(NoCode, TRUE, <<"eth_getTransactionReceipt", txHash, "failed">>)

\* new Error(`Transaction ${txHash} failed or reverted`)
FailedError(txHash) ==
  ErrorObject(NoCode, TRUE, <<"Transaction", txHash, "failed", "or", "reverted">>)

\* the error the catch block of an attempt receives
CaughtError(resp, txHash) == IF resp.kind = "error" THEN resp ELSE FailedError(txHash)

\* error.message.includes(...) is reached on an error without message text:
\* a TypeError leaves the catch block
ClassifyRaises(e) == e.code # TransientCode /\ ~e.hasMessage

\* variant: only the provider code is transient
IsTransientCodeOnly(e) == e.code = TransientCode

\* error.code === -32008 || error.message.includes("eth_getTransactionReceipt")
IsTransient(e) == e.code = TransientCode \/ Includes(e.message, ReceiptPattern)

LastAttempt(attempt, retries) == attempt = retries

\* what one attempt of waitForTransaction does with the poll's response
WaitOutcome(resp, txHash, attempt, retries) ==
  IF ReceiptOk(resp) THEN "return"
  ELSE LET e == CaughtError(resp, txHash)
       IN  IF ClassifyRaises(e) THEN "raise"
           ELSE IF IsTransient(e)
                THEN IF LastAttempt(attempt, retries) THEN "exhausted" ELSE "retry"
                ELSE "fatal"

\* if (receipt) return tx.hash; else return null
AddLiquidityOutcome(receipt, hash) == IF receipt # Null THEN <<hash>> ELSE Null

\* variant: the catch block of addLiquidity logs and rethrows
AddLiquidityRethrows == FALSE

\* the catch block of addLiquidity logs and returns null
AddLiquidityCatches == TRUE

\* the catch block of approveToken logs and returns false
ApproveCatchValue == FALSE

(***************************************************************************)
(* Vocabulary of the properties: the transient classification of a poll    *)
(* failure as the design states it (provider code -32008, or a message     *)
(* that mentions eth_getTransactionReceipt)                                *)
(***************************************************************************)
TransientFailure(resp) ==
  /\ resp.kind = "error"
  /\ \/ resp.code = -32008
     \/ \E i \in 1..Len(resp.message) : resp.message[i] = "eth_getTransactionReceipt"

(***************************************************************************)
(* State                                                                   *)
(***************************************************************************)
VARIABLES
  service,         \* the fields of each constructed service
  this,            \* the signer whose service the running invocation belongs to
  registry,        \* contract.WPHRS, contract.USDT, contract.USDC
  tokenA, tokenB, amountA, amountB,          \* arguments of addLiquidity
  pc,              \* where the invocation is suspended
  leg,             \* "A", "B": inside that approveToken call; "mint": after them
  tokenAAddress, tokenBAddress, token0, token1,
  amount0Desired, amount1Desired,
  approvedA, approvedB,
  params,          \* <<>> until assembled, then <<the mint parameters>>
  txParams,        \* <<>> until assembled, then <<the transaction request>>
  estimatedGas,    \* the gas estimate or its fallback, 0 before the estimation
  mintTx,          \* hash of the multicall transaction, "" before the broadcast
  result, raised,  \* what addLiquidity returned (Null or <<hash>>), or raised
  apToken, apSpender, apAmount, apAllowance,                \* approveToken
  apApproval,      \* <<>>, then <<the arguments token.approve was called with>>
  apTx, apRet, apFailure,
  wTxHash, confirmations, attempt, lastPoll, waitRet, waitRaised,   \* waitForTransaction
  polls, delays,   \* receipt polls and delay timers this waitForTransaction started
  transientPolls,  \* polls of this waitForTransaction call that failed transiently
  calls,           \* gateway calls and waitForTransaction calls so far, by kind
  logs,            \* kinds of the lines the latest step logged
  failures,        \* kinds of the failures met so far
  chainAllowance,  \* the token's allowance of the wallet to the spender, when tracked
  chainTxs,        \* the approval transactions the chain has accepted, when tracked
  parked           \* <<>>, or <<the frames of a second, suspended invocation>>

inputs == <<tokenA, tokenB, amountA, amountB>>

resolved ==
  <<tokenAAddress, tokenBAddress, token0, token1, amount0Desired, amount1Desired>>

approvals == <<approvedA, approvedB>>

built == <<params, txParams, estimatedGas, mintTx>>

outcome == <<result, raised>>

apFrame ==
  <<apToken, apSpender, apAmount, apAllowance, apApproval, apTx, apRet, apFailure>>

wFrame ==
  <<wTxHash, confirmations, attempt, lastPoll, waitRet, waitRaised,
    polls, delays, transientPolls>>

\* the state of the program: configuration, call frames and bookkeeping
program ==
  <<service, this, registry, inputs, pc, leg, resolved, approvals, built, outcome,
    apFrame, wFrame, calls, logs, failures>>

\* the state of the token contract on the chain
chain == <<chainAllowance, chainTxs>>

\* what a step of the running invocation has no access to
others == <<chain, parked>>

vars == <<program, chain, parked>>

NoCalls ==
  [allowance |-> 0, approve |-> 0, estimate |-> 0, send |-> 0, wait |-> 0]

\* no call is in progress
Idle ==
  /\ tokenA = <<>> /\ tokenB = <<>> /\ amountA = <<>> /\ amountB = <<>>
  /\ pc = "idle" /\ leg = "none"
  /\ tokenAAddress = Undefined /\ tokenBAddress = Undefined
  /\ token0 = Undefined /\ token1 = Undefined
  /\ amount0Desired = NoNumber /\ amount1Desired = NoNumber
  /\ approvedA = FALSE /\ approvedB = FALSE
  /\ params = <<>> /\ txParams = <<>> /\ estimatedGas = 0 /\ mintTx = ""
  /\ result = Null /\ raised = FALSE
  /\ apToken = Undefined /\ apSpender = Undefined
  /\ apAmount = NoNumber /\ apAllowance = NoNumber /\ apApproval = <<>>
  /\ apTx = "" /\ apRet = FALSE /\ apFailure = "none"
  /\ wTxHash = "" /\ confirmations = 0 /\ attempt = 0 /\ lastPoll = NoResponse
  /\ waitRet = Null /\ waitRaised = FALSE
  /\ polls = 0 /\ delays = 0 /\ transientPolls = 0
  /\ calls = NoCalls /\ logs = {} /\ failures = {}

\* the state after construction: nothing called yet; the gateway answers
\* anything, the chain behind it is not tracked
Init ==
  /\ service = Services /\ this = 1
  /\ registry \in Registries
  /\ Idle
  /\ chainAllowance = NoNumber /\ chainTxs = <<>>
  /\ parked = <<>>

Broadcasts == calls.approve + calls.send

\* approveToken up to its first await: the allowance read is issued
CallApprove(l, token, spender, amount) ==
  /\ leg' = l /\ pc' = "allowance"
  /\ apToken' = token /\ apSpender' = spender
  /\ apAmount' = amount /\ apAllowance' = NoNumber /\ apApproval' = <<>>
  /\ apTx' = "" /\ apRet' = FALSE /\ apFailure' = "none"
  /\ calls' = [calls EXCEPT !.allowance = @ + 1]

\* approveToken completes with value v
ApproveReturns(v, failure) ==
  /\ pc' = "approveRet" /\ apRet' = v /\ apFailure' = failure

\* waitForTransaction up to its first await: attempt 1 polls
CallWait(hash, confs) ==
  /\ pc' = "poll"
  /\ wTxHash' = hash /\ confirmations' = confs
  /\ attempt' = 1 /\ lastPoll' = NoResponse
  /\ waitRet' = Null /\ waitRaised' = FALSE
  /\ polls' = 1 /\ delays' = 0 /\ transientPolls' = 0
  /\ calls' = [calls EXCEPT !.wait = @ + 1]

\* the frame of a waitForTransaction call that returned is gone
DropWait ==
  /\ wTxHash' = "" /\ confirmations' = 0 /\ attempt' = 0 /\ lastPoll' = NoResponse
  /\ waitRet' = Null /\ waitRaised' = FALSE
  /\ polls' = 0 /\ delays' = 0 /\ transientPolls' = 0

\* the frame of an approveToken call that returned is gone
DropApprove ==
  /\ apToken' = Undefined /\ apSpender' = Undefined
  /\ apAmount' = NoNumber /\ apAllowance' = NoNumber /\ apApproval' = <<>>
  /\ apTx' = "" /\ apRet' = FALSE /\ apFailure' = "none"

\* addLiquidity returns v
Returns(v) == pc' = "done" /\ result' = v /\ raised' = FALSE

\* an error reaches the catch block of addLiquidity
Caught == pc' = "done" /\ result' = Null /\ raised' = ~AddLiquidityCatches

(***************************************************************************)
(* addLiquidity, from the call to the first await                          *)
(***************************************************************************)
Start(tA, tB, aA, aB) ==
  /\ pc = "idle"
  /\ tokenA' = tA /\ tokenB' = tB /\ amountA' = aA /\ amountB' = aB
  /\ LET a == Resolve(registry, tA)
         b == Resolve(registry, tB)
         t0 == Token0(a, b)
         t1 == Token1(a, b)
         s0 == Amount0Source(a, t0, aA, aB)
         s1 == Amount1Source(a, t0, aA, aB)
     IN  /\ tokenAAddress' = a /\ tokenBAddress' = b
         /\ IF InvalidPair(a, b)
            THEN /\ Returns(Null)
                 /\ logs' = {"invalidPair"}
                 /\ UNCHANGED <<token0, token1, amount0Desired, amount1Desired,
                                leg, apFrame, calls, failures>>
            ELSE IF ~(ParseOk(s0) /\ ParseOk(s1))
            THEN /\ Caught
                 /\ token0' = t0 /\ token1' = t1
                 /\ logs' = {"errorAdding"}
                 /\ failures' = failures \cup {"parse"}
                 /\ UNCHANGED <<amount0Desired, amount1Desired, leg, apFrame,
                                calls>>
            ELSE /\ token0' = t0 /\ token1' = t1
                 /\ amount0Desired' = parseEther(s0)
                 /\ amount1Desired' = parseEther(s1)
                 /\ CallApprove("A", a, ROUTER,
                                RequiredA(parseEther(s0), parseEther(s1)))
                 /\ logs' = {}
                 /\ UNCHANGED <<failures, outcome>>
  /\ UNCHANGED <<service, this, registry, approvals, built, wFrame>>

(***************************************************************************)
(* approveToken                                                            *)
(***************************************************************************)
AllowanceOk(v) ==
  /\ pc = "allowance"
  /\ apAllowance' = v
  /\ IF AllowanceSufficient(v, apAmount)
     THEN /\ ApproveReturns(TRUE, "none")
          /\ logs' = {"alreadyApproved"}
          /\ UNCHANGED <<apApproval, calls>>
     ELSE /\ pc' = "approve"
          /\ logs' = {"approving"}
          /\ apApproval' = <<ApproveArgs(apSpender, apAmount)>>
          /\ calls' = [calls EXCEPT !.approve = @ + 1]
          /\ UNCHANGED <<apRet, apFailure>>
  /\ UNCHANGED <<service, this, registry, inputs, leg, resolved, approvals,
                 built, outcome,
                 apToken, apSpender, apAmount, apTx, wFrame, failures>>

AllowanceFails ==
  /\ pc = "allowance"
  /\ ApproveReturns(ApproveCatchValue, "read")
  /\ logs' = {"approvalFailed"}
  /\ failures' = failures \cup {"allowance"}
  /\ UNCHANGED <<service, this, registry, inputs, leg, resolved, approvals,
                 built, outcome,
                 apToken, apSpender, apAmount, apAllowance, apApproval, apTx,
                 wFrame, calls>>

\* token.approve(spender, MaxUint256) is broadcast; waitForTransaction starts
ApproveSent ==
  /\ pc = "approve"
  /\ apTx' = TxHashes[Broadcasts]
  /\ CallWait(TxHashes[Broadcasts], ApproveConfirmations)
  /\ logs' = {}
  /\ UNCHANGED <<service, this, registry, inputs, leg, resolved, approvals,
                 built, outcome,
                 apToken, apSpender, apAmount, apAllowance, apApproval,
                 apRet, apFailure, failures>>

ApproveFails ==
  /\ pc = "approve"
  /\ ApproveReturns(ApproveCatchValue, "broadcast")
  /\ logs' = {"approvalFailed"}
  /\ failures' = failures \cup {"approve"}
  /\ UNCHANGED <<service, this, registry, inputs, leg, resolved, approvals,
                 built, outcome,
                 apToken, apSpender, apAmount, apAllowance, apApproval, apTx,
                 wFrame, calls>>

\* await this.waitForTransaction(tx.hash, 1) comes back to approveToken
ApproveWaitReturn ==
  /\ pc = "waitRet" /\ leg \in {"A", "B"}
  /\ IF waitRaised
     THEN /\ ApproveReturns(ApproveCatchValue, "confirm")
          /\ logs' = {"approvalFailed"}
     ELSE /\ ApproveReturns(ApproveAfterWait(waitRet),
                            IF waitRet = Null THEN "confirm" ELSE "none")
          /\ logs' = {"approvalOk"}
  /\ UNCHANGED <<service, this, registry, inputs, leg, resolved, approvals,
                 built, outcome,
                 apToken, apSpender, apAmount, apAllowance, apApproval, apTx,
                 wFrame, calls, failures>>

(***************************************************************************)
(* waitForTransaction                                                      *)
(***************************************************************************)
PollResp(resp) ==
  /\ pc = "poll"
  /\ lastPoll' = resp
  /\ transientPolls' = transientPolls + (IF TransientFailure(resp) THEN 1 ELSE 0)
  /\ failures' = IF resp.kind = "error" THEN failures \cup {"poll"} ELSE failures
  /\ LET o == WaitOutcome(resp, wTxHash, attempt, Retries)
     IN  /\ pc' = IF o = "retry" THEN "delay" ELSE "waitRet"
         /\ waitRet' = IF o = "return" THEN <<resp>> ELSE Null
         /\ waitRaised' = (o = "raise")
         /\ delays' = IF o = "retry" THEN delays + 1 ELSE delays
         /\ logs' =
              (CASE o = "retry" -> {"retry"}
                 [] o = "exhausted" -> {"retry", "maxRetries"}
                 [] o = "fatal" -> {"txError"}
                 [] OTHER -> {})
  /\ UNCHANGED <<service, this, registry, inputs, leg, resolved, approvals,
                 built, outcome,
                 apFrame, wTxHash, confirmations, attempt, polls, calls>>

\* variant: a retry hands the transaction to the wallet again
DelayDoneResends ==
  /\ pc = "delay"
  /\ attempt' = attempt + 1
  /\ IF attempt + 1 <= Retries
     THEN /\ pc' = "poll"
          /\ polls' = polls + 1
     ELSE /\ pc' = "waitRet"
          /\ UNCHANGED polls
  /\ logs' = {}
  /\ calls' = IF leg = "mint" THEN [calls EXCEPT !.send = @ + 1] ELSE calls
  /\ UNCHANGED <<service, this, registry, inputs, leg, resolved, approvals,
                 built, outcome,
                 apFrame, wTxHash, confirmations, lastPoll, waitRet, waitRaised, delays,
                 transientPolls, failures>>

\* the delay timer fires: attempt++ and, while attempt <= retries, poll again
DelayDone ==
  /\ pc = "delay"
  /\ attempt' = attempt + 1
  /\ IF attempt + 1 <= Retries
     THEN /\ pc' = "poll"
          /\ polls' = polls + 1
     ELSE /\ pc' = "waitRet"
          /\ UNCHANGED polls
  /\ logs' = {}
  /\ UNCHANGED <<service, this, registry, inputs, leg, resolved, approvals,
                 built, outcome,
                 apFrame, wTxHash, confirmations, lastPoll, waitRet, waitRaised, delays,
                 transientPolls, calls, failures>>

(***************************************************************************)
(* addLiquidity, after each await                                          *)
(***************************************************************************)
\* approveToken for tokenA came back; approveToken for tokenB is called
ApproveAReturn ==
  /\ pc = "approveRet" /\ leg = "A"
  /\ approvedA' = apRet
  /\ CallApprove("B", tokenBAddress, ROUTER,
                 RequiredB(amount0Desired, amount1Desired))
  /\ DropWait
  /\ logs' = {}
  /\ UNCHANGED <<service, this, registry, inputs, resolved, approvedB, built,
                 outcome, failures>>

\* approveToken for tokenB came back; the multicall is assembled and its gas
\* estimation requested
ApproveBReturn(now) ==
  /\ pc = "approveRet" /\ leg = "B"
  /\ approvedB' = apRet
  /\ leg' = "mint"
  /\ LET p == MintParams(token0, token1, amount0Desired, amount1Desired,
                         service[this].wallet, now)
     IN  IF ~ApprovalsOk(approvedA, apRet)
         THEN /\ Returns(Null)
              /\ logs' = {"tokenApprovalFailed"}
              /\ UNCHANGED <<built, calls, failures>>
         ELSE IF ~EncodeOk(p)
         THEN /\ Caught
              /\ params' = <<p>>
              /\ logs' = {"errorAdding"}
              /\ failures' = failures \cup {"encode"}
              /\ UNCHANGED <<txParams, estimatedGas, mintTx, calls>>
         ELSE /\ params' = <<p>>
              /\ txParams' =
                   << [to |-> ROUTER, data |-> p,
                       value |-> TxValue(token0, token1, amount0Desired,
                                         amount1Desired, registry.WPHRS),
                       gasLimit |-> DefaultGas] >>
              /\ pc' = "estimate"
              /\ calls' = [calls EXCEPT !.estimate = @ + 1]
              /\ logs' = {}
              /\ UNCHANGED <<estimatedGas, mintTx, outcome, failures>>
  /\ DropApprove
  /\ DropWait
  /\ UNCHANGED <<service, this, registry, inputs, resolved, approvedA>>

\* the gas limit is set and the transaction handed to the wallet
SendWith(gas) ==
  /\ estimatedGas' = gas
  /\ txParams' = << [txParams[1] EXCEPT !.gasLimit = GasLimit(gas)] >>
  /\ pc' = "send"
  /\ calls' = [calls EXCEPT !.send = @ + 1]
  /\ UNCHANGED <<service, this, registry, inputs, leg, resolved, approvals,
                 params, mintTx,
                 outcome, apFrame, wFrame>>

EstimateOk(g) ==
  /\ pc = "estimate"
  /\ SendWith(g)
  /\ logs' = {"sending"}
  /\ UNCHANGED failures

EstimateFails ==
  /\ pc = "estimate"
  /\ SendWith(DefaultGas)
  /\ logs' = {"gasEstimationFailed", "sending"}
  /\ failures' = failures \cup {"estimate"}

\* variant: the broadcast transaction is kept in a field of the service
SendOkKeepsTx ==
  /\ pc = "send"
  /\ mintTx' = TxHashes[Broadcasts]
  /\ service' = [service EXCEPT ![this] = @ @@ [lastTx |-> TxHashes[Broadcasts]]]
  /\ CallWait(TxHashes[Broadcasts], MintConfirmations)
  /\ logs' = {"sent"}
  /\ UNCHANGED <<this, registry, inputs, leg, resolved, approvals, params,
                 txParams, estimatedGas, outcome, apFrame, failures>>

\* the multicall is broadcast; waitForTransaction starts
SendOk ==
  /\ pc = "send"
  /\ mintTx' = TxHashes[Broadcasts]
  /\ CallWait(TxHashes[Broadcasts], MintConfirmations)
  /\ logs' = {"sent"}
  /\ UNCHANGED <<service, this, registry, inputs, leg, resolved, approvals,
                 params, txParams,
                 estimatedGas, outcome, apFrame, failures>>

SendFails ==
  /\ pc = "send"
  /\ Caught
  /\ logs' = {"errorAdding"}
  /\ failures' = failures \cup {"send"}
  /\ UNCHANGED <<service, this, registry, inputs, leg, resolved, approvals,
                 built, apFrame,
                 wFrame, calls>>

\* await this.waitForTransaction(tx.hash, 1) comes back to addLiquidity
MintWaitReturn ==
  /\ pc = "waitRet" /\ leg = "mint"
  /\ IF waitRaised
     THEN /\ Caught
          /\ logs' = {"errorAdding"}
     ELSE /\ Returns(AddLiquidityOutcome(waitRet, mintTx))
          /\ logs' =
               (IF waitRet # Null THEN {"liquidityAdded"} ELSE {"confirmFailed"})
  /\ UNCHANGED <<service, this, registry, inputs, leg, resolved, approvals,
                 built, apFrame,
                 wFrame, calls, failures>>

\* the steps of an addLiquidity invocation against a gateway that may answer
\* anything
Next ==
  \/ /\ \E tA \in TokenInputs, tB \in TokenInputs,
           aA \in AmountInputs, aB \in AmountInputs : Start(tA, tB, aA, aB)
     /\ UNCHANGED others
  \/ (\E v \in AllowanceValues : AllowanceOk(v)) /\ UNCHANGED others
  \/ AllowanceFails /\ UNCHANGED others
  \/ ApproveSent /\ UNCHANGED others
  \/ ApproveFails /\ UNCHANGED others
  \/ (\E resp \in PollResponses : PollResp(resp)) /\ UNCHANGED others
  \/ DelayDone /\ UNCHANGED others
  \/ ApproveWaitReturn /\ UNCHANGED others
  \/ ApproveAReturn /\ UNCHANGED others
  \/ (\E now \in Clock : ApproveBReturn(now)) /\ UNCHANGED others
  \/ (\E g \in GasEstimates : EstimateOk(g)) /\ UNCHANGED others
  \/ EstimateFails /\ UNCHANGED others
  \/ SendOk /\ UNCHANGED others
  \/ SendFails /\ UNCHANGED others
  \/ MintWaitReturn /\ UNCHANGED others

Spec == Init /\ [][Next]_vars

(***************************************************************************)
(* approveToken called twice in succession for one token and spender,     *)
(* against a chain whose allowance and approval transactions are tracked   *)
(***************************************************************************)
ThreeEther == [neg |-> FALSE, mag |-> <<3>> \o Zeros(18)]

\* amounts a caller asks approveToken to cover
RequiredAmounts == {OneAndHalfEther, ThreeEther}

TwiceInit ==
  /\ service = Services /\ this = 1
  /\ registry \in Registries
  /\ Idle
  /\ chainAllowance \in AllowanceValues /\ chainTxs = <<>>
  /\ parked = <<>>

\* the first call, up to its allowance read
FirstCall(token, spender, amount) ==
  /\ pc = "idle"
  /\ CallApprove("A", token, spender, amount)
  /\ logs' = {}
  /\ UNCHANGED <<service, this, registry, inputs, resolved, approvals, built,
                 outcome, wFrame,
                 failures, others>>

\* the first call returned; the second asks for at least as much
SecondCall(amount) ==
  /\ pc = "approveRet" /\ leg = "A"
  /\ BigGE(amount, apAmount)
  /\ approvedA' = apRet
  /\ CallApprove("B", apToken, apSpender, amount)
  /\ DropWait
  /\ logs' = {}
  /\ UNCHANGED <<service, this, registry, inputs, resolved, approvedB, built,
                 outcome,
                 failures, others>>

SecondReturn ==
  /\ pc = "approveRet" /\ leg = "B"
  /\ approvedB' = apRet
  /\ pc' = "done"
  /\ logs' = {}
  /\ UNCHANGED <<service, this, registry, inputs, leg, resolved, approvedA,
                 built, outcome,
                 apFrame, wFrame, calls, failures, others>>

\* token.allowance(wallet, spender) reads the chain
ReadAllowance == AllowanceOk(chainAllowance) /\ UNCHANGED others

\* the chain accepts the transaction token.approve sent
AcceptApprove ==
  /\ ApproveSent
  /\ chainTxs' = Append(chainTxs,
                        [hash |-> TxHashes[Broadcasts], token |-> apToken,
                         spender |-> apApproval[1].spender,
                         amount |-> apApproval[1].amount, status |-> "pending"])
  /\ UNCHANGED <<chainAllowance, parked>>

\* "pending", "ok" or "reverted"; "unknown" for a hash the chain never saw
TxStatus(hash) ==
  LET known == {i \in 1..Len(chainTxs) : chainTxs[i].hash = hash}
  IN  IF known = {} THEN "unknown" ELSE chainTxs[CHOOSE i \in known : TRUE].status

\* what provider.waitForTransaction can answer for a transaction: its
\* receipt once it is mined, no receipt, or an error of the gateway
Answers(resp, hash) ==
  \/ resp.kind \in {"error", "null"}
  \/ resp.kind = "receipt" /\ resp.status = 1 /\ TxStatus(hash) = "ok"
  \/ resp.kind = "receipt" /\ resp.status = 0 /\ TxStatus(hash) = "reverted"

PollChain ==
  /\ \E resp \in PollResponses : PollResp(resp) /\ Answers(resp, wTxHash)
  /\ UNCHANGED others

\* the chain mines the oldest pending approval: it sets the allowance, or
\* reverts and leaves it alone
Mine(i, ok) ==
  /\ i \in 1..Len(chainTxs)
  /\ chainTxs[i].status = "pending"
  /\ \A j \in 1..(i - 1) : chainTxs[j].status # "pending"
  /\ chainTxs' = [chainTxs EXCEPT ![i].status = IF ok THEN "ok" ELSE "reverted"]
  /\ chainAllowance' = IF ok THEN chainTxs[i].amount ELSE chainAllowance
  /\ UNCHANGED <<program, parked>>

TwiceNext ==
  \/ \E amount \in RequiredAmounts : FirstCall(registry.USDT, ROUTER, amount)
  \/ ReadAllowance
  \/ AllowanceFails /\ UNCHANGED others
  \/ AcceptApprove
  \/ ApproveFails /\ UNCHANGED others
  \/ PollChain
  \/ DelayDone /\ UNCHANGED others
  \/ ApproveWaitReturn /\ UNCHANGED others
  \/ \E amount \in RequiredAmounts : SecondCall(amount)
  \/ SecondReturn
  \/ \E i \in 1..2, ok \in BOOLEAN : Mine(i, ok)

TwiceSpec == TwiceInit /\ [][TwiceNext]_vars


(***************************************************************************)
(* Two addLiquidity invocations, one for each signer, interleaved at their *)
(* suspension points: one continuation runs at a time, on its own frames   *)
(***************************************************************************)
\* the frames of the running invocation
Frames ==
  [this |-> this, tokenA |-> tokenA, tokenB |-> tokenB, amountA |-> amountA,
   amountB |-> amountB, pc |-> pc, leg |-> leg,
   tokenAAddress |-> tokenAAddress, tokenBAddress |-> tokenBAddress,
   token0 |-> token0, token1 |-> token1, amount0Desired |-> amount0Desired,
   amount1Desired |-> amount1Desired, approvedA |-> approvedA,
   approvedB |-> approvedB, params |-> params, txParams |-> txParams,
   estimatedGas |-> estimatedGas, mintTx |-> mintTx, result |-> result,
   raised |-> raised, apToken |-> apToken, apSpender |-> apSpender,
   apAmount |-> apAmount, apAllowance |-> apAllowance,
   apApproval |-> apApproval, apTx |-> apTx, apRet |-> apRet,
   apFailure |-> apFailure, wTxHash |-> wTxHash,
   confirmations |-> confirmations, attempt |-> attempt,
   lastPoll |-> lastPoll, waitRet |-> waitRet, waitRaised |-> waitRaised,
   polls |-> polls, delays |-> delays, transientPolls |-> transientPolls,
   calls |-> calls, logs |-> logs, failures |-> failures]

\* the continuation of the invocation with frames f is the one to run
Resume(f) ==
  /\ this' = f.this /\ tokenA' = f.tokenA /\ tokenB' = f.tokenB
  /\ amountA' = f.amountA /\ amountB' = f.amountB /\ pc' = f.pc
  /\ leg' = f.leg /\ tokenAAddress' = f.tokenAAddress
  /\ tokenBAddress' = f.tokenBAddress /\ token0' = f.token0
  /\ token1' = f.token1 /\ amount0Desired' = f.amount0Desired
  /\ amount1Desired' = f.amount1Desired /\ approvedA' = f.approvedA
  /\ approvedB' = f.approvedB /\ params' = f.params
  /\ txParams' = f.txParams /\ estimatedGas' = f.estimatedGas
  /\ mintTx' = f.mintTx /\ result' = f.result /\ raised' = f.raised
  /\ apToken' = f.apToken /\ apSpender' = f.apSpender
  /\ apAmount' = f.apAmount /\ apAllowance' = f.apAllowance
  /\ apApproval' = f.apApproval /\ apTx' = f.apTx /\ apRet' = f.apRet
  /\ apFailure' = f.apFailure /\ wTxHash' = f.wTxHash
  /\ confirmations' = f.confirmations /\ attempt' = f.attempt
  /\ lastPoll' = f.lastPoll /\ waitRet' = f.waitRet
  /\ waitRaised' = f.waitRaised /\ polls' = f.polls /\ delays' = f.delays
  /\ transientPolls' = f.transientPolls /\ calls' = f.calls
  /\ logs' = f.logs /\ failures' = f.failures

\* the event loop turns to the other invocation
Switch ==
  /\ parked # <<>>
  /\ Resume(parked[1])
  /\ parked' = <<Frames>>
  /\ UNCHANGED <<service, registry, chain>>

PairRegistry ==
  [WPHRS |-> <<"0", "x", "1", "a">>, USDT |-> <<"0", "x", "a", "1">>,
   USDC |-> <<"0", "x", "1", "B">>]

\* gateway responses the pair of invocations is run against: the first
\* signer's calls meet missing allowances and transient failures, the second
\* signer's calls are answered at once
PairAllowances(s) == IF s = 1 THEN {Zero, MaxUint256} ELSE {MaxUint256}

PairPolls(s) ==
  IF s = 1
  THEN {Receipt(1), Receipt(0),
        ErrorObject(TransientCode, TRUE, <<"unknown", "block">>)}
  ELSE {Receipt(1), Receipt(0)}

PairInit ==
  /\ service = Services /\ this = 1
  /\ registry = PairRegistry
  /\ Idle
  /\ chainAllowance = NoNumber /\ chainTxs = <<>>
  /\ parked = << [Frames EXCEPT !.this = 2] >>

PairNext ==
  \/ /\ \E tA \in {<<"P", "H", "R", "S">>, <<"U", "S", "D", "C">>} :
           Start(tA, <<"u", "s", "d", "t">>, <<"1", ".", "5">>, <<"3", ".", "0">>)
     /\ UNCHANGED others
  \/ (\E v \in PairAllowances(this) : AllowanceOk(v)) /\ UNCHANGED others
  \/ AllowanceFails /\ UNCHANGED others
  \/ ApproveSent /\ UNCHANGED others
  \/ (\E resp \in PairPolls(this) : PollResp(resp)) /\ UNCHANGED others
  \/ DelayDone /\ UNCHANGED others
  \/ ApproveWaitReturn /\ UNCHANGED others
  \/ ApproveAReturn /\ UNCHANGED others
  \/ (\E now \in Clock : ApproveBReturn(now)) /\ UNCHANGED others
  \/ (\E g \in GasEstimates : EstimateOk(g)) /\ UNCHANGED others
  \/ EstimateFails /\ UNCHANGED others
  \/ SendOk /\ UNCHANGED others
  \/ SendFails /\ UNCHANGED others
  \/ MintWaitReturn /\ UNCHANGED others
  \/ Switch

PairSpec == PairInit /\ [][PairNext]_vars

(***************************************************************************)
(* Properties                                                              *)
(***************************************************************************)
\* an approveToken call is in progress or has just completed
InApprove ==
  /\ leg \in {"A", "B"}
  /\ pc \in {"allowance", "approve", "poll", "delay", "waitRet", "approveRet"}

\* two different tokens and amounts that can be deposited
OrdinaryPair ==
  /\ tokenAAddress # tokenBAddress
  /\ amount0Desired # NoNumber /\ ~amount0Desired.neg
  /\ amount1Desired # NoNumber /\ ~amount1Desired.neg

\* C1: addLiquidity returns a non-null hash only if the receipt of the
\* broadcast mint transaction was obtained with status 1; after a receipt
\* with a failure status, no receipt, or a poll error it returns null.
C1_HashOnlyOnConfirmedReceipt ==
  (pc = "done" /\ result # Null) =>
    /\ leg = "mint" /\ calls.send = 1
    /\ mintTx # "" /\ wTxHash = mintTx /\ result = <<mintTx>>
    /\ lastPoll.kind = "receipt" /\ lastPoll.status = 1
    /\ ~waitRaised

C1_Witness ==
  /\ pc = "done" /\ result = <<mintTx>> /\ mintTx # ""
  /\ lastPoll = Receipt(1) /\ polls = 2

\* C2: approveToken returns false on any failure: a failed allowance read,
\* a failed approve broadcast, or a confirmation that yields no receipt.
C2_ApproveFalseOnAnyFailure ==
  (OrdinaryPair /\ pc = "approveRet" /\ apFailure # "none") => apRet = FALSE

\* C3: the amount passed to the approval check for a token is at least the
\* deposit the mint parameters assign to that token, and an approval that
\* passed on a sufficient allowance means the allowance covers that deposit.
C3_ApprovalCoversDeposit ==
  (OrdinaryPair /\ InApprove) =>
    /\ apToken = token0 => BigGE(apAmount, amount0Desired)
    /\ apToken = token1 => BigGE(apAmount, amount1Desired)
    /\ (pc = "approveRet" /\ apRet /\ apTx = "") =>
         /\ apToken = token0 => BigGE(apAllowance, amount0Desired)
         /\ apToken = token1 => BigGE(apAllowance, amount1Desired)

\* C4: if either approveToken call returns false, addLiquidity returns null
\* with no gas estimation and no mint broadcast; a mint is assembled,
\* estimated and broadcast only after both calls returned true.
C4_NoMintWithoutBothApprovals ==
  /\ (calls.estimate > 0 \/ calls.send > 0 \/ params # <<>> \/ mintTx # "")
       => (approvedA /\ approvedB)
  /\ (leg = "mint" /\ ~(approvedA /\ approvedB)) =>
       /\ pc = "done" /\ result = Null /\ ~raised
       /\ calls.estimate = 0 /\ calls.send = 0 /\ txParams = <<>>

C4_Witness ==
  pc = "done" /\ leg = "mint" /\ approvedA /\ ~approvedB /\ result = Null

\* C5 as stated: whatever fails (allowance read, approve, gas estimation,
\* broadcast, receipt poll, parsing, encoding), addLiquidity returns null
\* and does not raise.
C5_AnyFailureReturnsNull ==
  /\ ~raised
  /\ (OrdinaryPair /\ pc = "done" /\ failures # {}) => result = Null

\* C5 as amended: addLiquidity never raises; it returns null whenever
\* parsing, encoding, an allowance read, an approve broadcast or the mint
\* broadcast failed, and whenever the wait for the mint raised or came back
\* without a receipt.
C5_NoFailureEscapes ==
  /\ ~raised
  /\ (pc = "done" /\ failures \cap {"parse", "encode", "allowance", "approve", "send"} # {})
       => result = Null
  /\ (pc = "done" /\ leg = "mint" /\ calls.send = 1 /\ (waitRaised \/ waitRet = Null))
       => result = Null

C5_Witness ==
  pc = "done" /\ "poll" \in failures /\ waitRaised /\ leg = "mint" /\ result = Null

\* the symbol is one of the registry's, letter case aside
SameLetter(c, d) ==
  \/ c = d
  \/ \E k \in 1..Len(LowerChars) :
       {c, d} = {LowerChars[k], UpperChars[k]}

InRegistry(symbol) ==
  \E name \in { <<"P", "H", "R", "S">>, <<"U", "S", "D", "T">>, <<"U", "S", "D", "C">> } :
    /\ Len(symbol) = Len(name)
    /\ \A i \in 1..Len(name) : SameLetter(symbol[i], name[i])

\* C6: when tokenA or tokenB is not a symbol of the registry {PHRS, USDT,
\* USDC}, compared case-insensitively, addLiquidity returns null without
\* any gateway call.
C6_UnknownSymbolNoGatewayCall ==
  (pc # "idle" /\ (~InRegistry(tokenA) \/ ~InRegistry(tokenB))) =>
    /\ pc = "done" /\ result = Null /\ ~raised
    /\ calls = NoCalls /\ polls = 0 /\ delays = 0
    /\ logs = {"invalidPair"}

C6_Witness ==
  /\ pc = "done" /\ result = Null /\ calls = NoCalls
  /\ tokenA = <<"u", "s", "d", "t">> /\ tokenB = <<"D", "O", "G", "E">>

\* C7: in every mint call that addLiquidity assembles, token0 is strictly
\* lower than token1, also when tokenA and tokenB are the same symbol.
C7_Token0BelowToken1 ==
  txParams # <<>> => StrLess(txParams[1].data.token0, txParams[1].data.token1)

\* what addLiquidity(tA, tB, aA, aB) computes: token0, token1, the desired
\* amounts and the native value attached
Ordering(reg, tA, tB, aA, aB) ==
  LET a == Resolve(reg, tA)
      b == Resolve(reg, tB)
      t0 == Token0(a, b)
      t1 == Token1(a, b)
      a0 == parseEther(Amount0Source(a, t0, aA, aB))
      a1 == parseEther(Amount1Source(a, t0, aA, aB))
  IN  <<t0, t1, a0, a1, TxValue(t0, t1, a0, a1, reg.WPHRS)>>

\* C8: addLiquidity(A, B, a, b) and addLiquidity(B, A, b, a) compute the same
\* token0, token1, amount0Desired, amount1Desired and native value.
C8_OrderIndependent ==
  txParams # <<>> =>
    <<params[1].token0, params[1].token1,
      params[1].amount0Desired, params[1].amount1Desired, txParams[1].value>>
      = Ordering(registry, tokenB, tokenA, amountB, amountA)

\* the 18-decimal base-unit value of each amount a caller can pass
BaseUnits(amount) ==
  CASE amount = <<"1", ".", "5">> ->
         [neg |-> FALSE, mag |-> <<1, 5, 0, 0, 0, 0, 0, 0, 0, 0, 0, 0, 0, 0, 0, 0, 0, 0, 0>>]
    [] amount = <<"3", ".", "0">> ->
         [neg |-> FALSE, mag |-> <<3, 0, 0, 0, 0, 0, 0, 0, 0, 0, 0, 0, 0, 0, 0, 0, 0, 0, 0>>]
    [] amount = <<"-", "1">> ->
         [neg |-> TRUE, mag |-> <<1, 0, 0, 0, 0, 0, 0, 0, 0, 0, 0, 0, 0, 0, 0, 0, 0, 0, 0>>]
    [] OTHER -> NoNumber

\* C9: amount0Desired is the 18-decimal base-unit value of the amount given
\* for the input token that became token0, amount1Desired that of the input
\* token that became token1, and the mint parameters carry them.
C9_AmountsFollowTokens ==
  /\ amount0Desired # NoNumber =>
       \/ /\ tokenAAddress = token0 /\ tokenBAddress = token1
          /\ amount0Desired = BaseUnits(amountA)
          /\ amount1Desired = BaseUnits(amountB)
       \/ /\ tokenBAddress = token0 /\ tokenAAddress = token1
          /\ amount0Desired = BaseUnits(amountB)
          /\ amount1Desired = BaseUnits(amountA)
  /\ params # <<>> =>
       /\ params[1].token0 = token0 /\ params[1].token1 = token1
       /\ params[1].amount0Desired = amount0Desired
       /\ params[1].amount1Desired = amount1Desired

C9_Witness ==
  /\ params # <<>>
  /\ tokenBAddress = token0 /\ tokenAAddress = token1 /\ token0 # token1
  /\ amountA = <<"1", ".", "5">> /\ amountB = <<"3", ".", "0">>
  /\ params[1].amount1Desired = BaseUnits(<<"1", ".", "5">>)

\* C10: in waitForTransaction, k < maxAttempts polls that fail transiently
\* are each followed by a delay and another poll, and a receipt with status
\* 1 at poll k+1 is returned; maxAttempts transient failures end with null
\* and no error raised.
C10_TransientThenSuccess ==
  /\ (polls > 0 /\ transientPolls = polls /\ polls < Retries) =>
       (pc = "delay" /\ delays = polls)
  /\ (pc = "waitRet" /\ transientPolls = polls - 1 /\ lastPoll = Receipt(1)) =>
       (waitRet = <<Receipt(1)>> /\ ~waitRaised)
  /\ transientPolls = Retries =>
       /\ pc \notin {"poll", "delay"}
       /\ waitRet = Null /\ ~waitRaised
       /\ polls = Retries /\ delays = Retries - 1

C10_Witness ==
  /\ pc = "waitRet" /\ polls = Retries /\ transientPolls = Retries - 1
  /\ waitRet = <<Receipt(1)>>

C10_WitnessExhausted ==
  pc = "waitRet" /\ transientPolls = Retries /\ waitRet = Null

\* a receipt that reports the transaction as failed
FailedReceipt(resp) == resp.kind = "receipt" /\ resp.status # 1

\* C11: in waitForTransaction every poll error outside the transient
\* classification, an error object without code and without message text
\* included, is fatal: it is logged, null is returned at once with no further
\* poll and no delay, and nothing is raised.
C11_NonTransientErrorIsFatal ==
  (lastPoll.kind = "error" /\ ~TransientFailure(lastPoll)) =>
    /\ pc \notin {"poll", "delay"}
    /\ delays = polls - 1
    /\ waitRet = Null /\ ~waitRaised
    /\ pc = "waitRet" => logs = {"txError"}

\* C12 as stated: a receipt with a failure status is retried like a transient
\* failure: before the last attempt the tracker delays and polls again.
C12_FailedReceiptRetried ==
  (FailedReceipt(lastPoll) /\ polls < Retries) => pc \in {"delay", "poll"}

\* C12: a receipt with a failure status is not retried: the tracker logs a
\* transaction error and returns null at once, with no delay and no further
\* poll, and raises nothing.
C12_FailedReceiptIsFatal ==
  FailedReceipt(lastPoll) =>
    /\ pc \notin {"poll", "delay"}
    /\ delays = polls - 1
    /\ waitRet = Null /\ ~waitRaised
    /\ pc = "waitRet" => logs = {"txError"}

C12_Witness ==
  /\ pc = "waitRet" /\ lastPoll = Receipt(0)
  /\ polls = 2 /\ transientPolls = 1 /\ leg = "mint"

\* C15: a failed gas estimation never ends the invocation: the transaction is
\* still handed to the wallet, with gas limit floor(500000 * 12 / 10) = 600000;
\* after an estimate g the gas limit is floor(g * 12 / 10).
C15_GasLimitFromEstimate ==
  /\ "estimate" \in failures => (calls.send = 1 /\ estimatedGas = 500000)
  /\ calls.send > 0 =>
       LET limit == txParams[1].gasLimit
       IN  /\ limit * 10 <= estimatedGas * 12
           /\ estimatedGas * 12 < (limit + 1) * 10
           /\ "estimate" \in failures => limit = 600000
           /\ "estimate" \notin failures => estimatedGas \in GasEstimates

C15_Witness ==
  /\ pc = "done" /\ result # Null /\ "estimate" \in failures
  /\ txParams[1].gasLimit = 600000

C15_WitnessEstimated ==
  /\ pc = "send" /\ estimatedGas = 250001 /\ txParams[1].gasLimit = 300001

\* the symbol names the native token
IsNative(symbol) ==
  /\ Len(symbol) = 4
  /\ \A i \in 1..4 : SameLetter(symbol[i], <<"P", "H", "R", "S">>[i])

\* C16: the native value attached to the mint transaction is the desired
\* amount of the leg whose token is the wrapped native token (amount0Desired
\* when token0 is WPHRS, amount1Desired when token1 is), and 0 when neither
\* token is WPHRS; in terms of the inputs, the base-unit value of the amount
\* given with PHRS, whichever argument position PHRS is in.
C16_NativeValueIsNativeLeg ==
  txParams # <<>> =>
    LET value == txParams[1].value
        p == txParams[1].data
    IN  /\ p.token0 = registry.WPHRS => value = p.amount0Desired
        /\ (p.token0 # registry.WPHRS /\ p.token1 = registry.WPHRS) =>
             value = p.amount1Desired
        /\ (p.token0 # registry.WPHRS /\ p.token1 # registry.WPHRS) =>
             value = Zero
        /\ (IsNative(tokenA) /\ ~IsNative(tokenB)) => value = BaseUnits(amountA)
        /\ (IsNative(tokenB) /\ ~IsNative(tokenA)) => value = BaseUnits(amountB)
        /\ (~IsNative(tokenA) /\ ~IsNative(tokenB)) => value = Zero

C16_Witness ==
  /\ txParams # <<>> /\ token1 = registry.WPHRS /\ token0 # token1
  /\ IsNative(tokenB) /\ amountB = <<"3", ".", "0">>
  /\ txParams[1].value = BaseUnits(<<"3", ".", "0">>)

C16_WitnessToken0 ==
  /\ txParams # <<>> /\ token0 = registry.WPHRS /\ token0 # token1
  /\ IsNative(tokenB) /\ txParams[1].value = BaseUnits(amountB)

C16_WitnessNoNative ==
  /\ txParams # <<>> /\ registry.WPHRS \notin {token0, token1}
  /\ txParams[1].value = Zero

HexLower == <<"a", "b", "c", "d", "e", "f">>

HexUpper == <<"A", "B", "C", "D", "E", "F">>

\* the value of a hexadecimal digit, in either letter case
HexVal(c) ==
  IF IsDigit(c) THEN DigitVal(c)
  ELSE 9 + (CHOOSE k \in 1..6 : c = HexLower[k] \/ c = HexUpper[k])

RECURSIVE HexValue(_)
HexValue(digits) ==
  IF digits = <<>> THEN 0
  ELSE 16 * HexValue(SubSeq(digits, 1, Len(digits) - 1)) + HexVal(digits[Len(digits)])

\* the number an address spells, after its 0x prefix
AddressValue(addr) == HexValue(SubSeq(addr, 3, Len(addr)))

\* C19: whatever the letter case of the registry's addresses, token0 of the
\* mint parameters is the numerically lower of two different token addresses
\* and token1 the higher.
C19_Token0NumericallyLower ==
  (txParams # <<>> /\ tokenAAddress # tokenBAddress /\ OrdinaryPair) =>
    AddressValue(txParams[1].data.token0) < AddressValue(txParams[1].data.token1)

\* the confirmation of the mint transaction is being awaited
AwaitingMint == leg = "mint" /\ pc \in {"poll", "delay", "waitRet"}

\* C20: an addLiquidity invocation hands the mint transaction to the wallet
\* at most once; the polls and retries of its confirmation all ask for the
\* hash of that one broadcast and broadcast nothing; the hash returned is
\* that hash.
C20_SingleBroadcast ==
  /\ [](calls.send <= 1)
  /\ [](AwaitingMint => (calls.send = 1 /\ mintTx # "" /\ wTxHash = mintTx))
  /\ []((pc = "done" /\ result # Null) => (calls.send = 1 /\ result = <<mintTx>>))
  /\ [][AwaitingMint => (calls' = calls /\ mintTx' = mintTx /\ wTxHash' = wTxHash)]_vars

C20_Witness ==
  /\ pc = "done" /\ result = <<mintTx>> /\ mintTx # ""
  /\ leg = "mint" /\ polls = Retries /\ delays = Retries - 1 /\ calls.send = 1

\* the three ways waitForTransaction is said to end
Confirmed == waitRet # Null /\ waitRet[1].kind = "receipt" /\ waitRet[1].status = 1

FatalEnd == waitRet = Null /\ logs = {"txError"}

Exhausted == waitRet = Null /\ "maxRetries" \in logs

\* C18: a waitForTransaction call ends in exactly one of three ways: the
\* confirmed receipt, null after a fatal error, or null after the attempts are
\* exhausted, the last two with different log lines; it polls at most
\* maxAttempts times and delays at most maxAttempts - 1 times, and a delay
\* only follows a transient failure that was not the last attempt.
C18_OneOfThreeOutcomes ==
  /\ polls <= Retries /\ delays <= Retries - 1
  /\ pc = "delay" =>
       (TransientFailure(lastPoll) /\ attempt < Retries /\ delays = polls)
  /\ pc = "poll" => delays = polls - 1
  /\ pc = "waitRet" =>
       /\ ~waitRaised
       /\ Confirmed \/ FatalEnd \/ Exhausted
       /\ ~(Confirmed /\ FatalEnd) /\ ~(Confirmed /\ Exhausted)
       /\ ~(FatalEnd /\ Exhausted)
       /\ delays = polls - 1

\* C13: of two successive approveToken calls for one token and spender, the
\* second asking for at least as much as the first, when the first returned
\* true the two together broadcast at most one approval transaction,
\* whatever the first call's confirmation wait came to.
C13_AtMostOneApproval ==
  (leg = "B" /\ approvedA) => Len(chainTxs) <= 1

\* the approval transactions on the chain that carry the hash of this call's
\* approve
OwnTxs == {i \in 1..Len(chainTxs) : chainTxs[i].hash = apTx}

\* C14: once approveToken has read the allowance: if it covers the required
\* amount the call returns true, has called approve not at all and leaves
\* the chain as it was; if it is lower the call has called approve exactly
\* once, for the given spender and the largest uint256, and when that
\* transaction is accepted waits for 1 confirmation of its hash.
C14_ApproveOnlyWhenNeeded ==
  (leg \in {"A", "B"} /\ apAllowance # NoNumber) =>
    IF ~BigLess(apAllowance, apAmount)
    THEN /\ pc \in {"approveRet", "done"} /\ apRet
         /\ apApproval = <<>> /\ apTx = "" /\ OwnTxs = {}
         /\ leg = "A" => (calls.approve = 0 /\ chainTxs = <<>>
                             /\ chainAllowance = apAllowance)
    ELSE /\ apApproval = << [spender |-> apSpender, amount |-> MaxUint256] >>
         /\ leg = "A" => calls.approve = 1
         /\ IF apTx = ""
            THEN OwnTxs = {} /\ pc \in {"approve", "approveRet", "done"}
            ELSE /\ Cardinality(OwnTxs) = 1
                 /\ \A i \in OwnTxs :
                      /\ chainTxs[i].token = apToken
                      /\ chainTxs[i].spender = apSpender
                      /\ chainTxs[i].amount = MaxUint256
                 /\ leg = "A" => Len(chainTxs) = 1
                 /\ wTxHash = apTx /\ confirmations = 1 /\ polls >= 1

C14_Witness ==
  /\ leg = "B" /\ pc = "poll" /\ apAllowance = OneAndHalfEther
  /\ apAmount = ThreeEther /\ Cardinality(OwnTxs) = 1 /\ Len(chainTxs) = 1

C14_WitnessCovered ==
  /\ leg = "A" /\ pc = "approveRet" /\ apAllowance = OneAndHalfEther
  /\ apAmount = OneAndHalfEther /\ apRet /\ chainTxs = <<>>

\* the result of a finished invocation with frames f, read off its own
\* frames: the hash of its own broadcast when its own wait for the mint
\* transaction returned a receipt, null otherwise, and nothing raised
OwnResult(f) ==
  f.pc = "done" =>
    /\ ~f.raised
    /\ f.result =
         (IF f.leg = "mint" /\ f.mintTx # "" /\ f.waitRet # Null /\ ~f.waitRaised
          THEN <<f.mintTx>> ELSE Null)
    /\ f.result # Null =>
         /\ f.mintTx = TxHashes[f.calls.approve + f.calls.send]
         /\ f.wTxHash = f.mintTx /\ f.lastPoll = Receipt(1)
         /\ f.txParams[1].data.recipient = Services[f.this].wallet

\* C17: two addLiquidity invocations for different signers, interleaved in
\* every way at their suspension points, do not interfere: no step changes
\* a field of a service; a step of one invocation leaves the frames of the
\* suspended one as they were, and a switch hands them back unchanged; each
\* invocation's result is the one its own inputs and gateway responses give.
C17_NoInterference ==
  /\ [][service' = service]_vars
  /\ [][(this' = this) => (parked' = parked)]_vars
  /\ [][(this' # this) => (parked' = <<Frames>> /\ <<Frames'>> = parked)]_vars
  /\ [](service = Services /\ parked # <<>> /\ parked[1].this # this)
  /\ [](OwnResult(Frames) /\ OwnResult(parked[1]))

C17_Witness ==
  /\ this = 2 /\ pc = "done" /\ result = <<"0xh1">>
  /\ parked[1].this = 1 /\ parked[1].pc = "done"
  /\ parked[1].result = <<"0xh3">> /\ parked[1].delays = 2

C17_WitnessInterleaved ==
  /\ this = 2 /\ pc = "poll" /\ leg = "mint"
  /\ parked[1].pc = "delay" /\ parked[1].leg = "B"

====
